---- MODULE Spec2Model ----
(***************************************************************************)
(* Contract risk bot: the risk pattern matcher (detect_risks), the         *)
(* language detector and translation wrapper it relies on, and the         *)
(* scoring engine (calculate_risk_score).                                  *)
(*                                                                         *)
(* Text.  A Python str is modelled as a sequence of phrases (tokens) that  *)
(* are concatenated without separator; the phrase " " is one blank.  Each  *)
(* phrase stands for a fixed string whose length, number of \w characters  *)
(* and number of Devanagari characters are tabulated below.  The Hindi     *)
(* phrase is written in Latin transliteration:                             *)
(*   "kshatipurti"       U+0915 094D 0937 0924 093F 092A 0942 0930 094D    *)
(*                       0924 093F  (11 characters, 6 of them \w, all 11   *)
(*                       Devanagari; a signature of Indemnification)       *)
(* "digits110" stands for a run of 110 decimal digits and "ka2250" for a   *)
(* run of 2250 letters U+0915.                                             *)
(*                                                                         *)
(* Numbers.  The score is a Python float; the model keeps it exact: the    *)
(* unrounded score as a numerator over the clause count, the reported      *)
(* (one-decimal) score in tenths, so 1000 stands for 100.0.                *)
(***************************************************************************)
EXTENDS Integers, Sequences, FiniteSets, TLC

(***************************************************************************)
(* Bounds                                                                  *)
(***************************************************************************)
MaxTokens == 3        \* phrases in the clause handed to detect_risks
MaxTransTokens == 1   \* phrases in a text returned by the translator
MaxMixed == 2         \* clauses of a document of arbitrary clauses
MaxRisky == 12        \* copies of one risky clause in a long document
MaxMedium == 1        \* Medium clauses in a long document
MaxBenign == 14       \* clauses matching nothing in a long document
MaxSplitTokens == 5   \* phrases in a text of arbitrary phrases handed to split_clauses
MaxBlocks == 3        \* blocks in a text of blocks handed to split_clauses
MaxRisks == 2         \* categories in a list whose severities are looked up
MaxExplained == 3     \* categories in a list handed to explain_multiple_risks
MaxLongTokens == 3    \* long Hindi phrases in a clause that is translated in chunks
MaxRunBlocks == 2     \* blocks in the file of an analysis run
MaxShownBlocks == 2   \* English blocks in the file of a run that is followed to its export

(***************************************************************************)
(* Phrases and their character counts                                      *)
(***************************************************************************)
Space == " "
Newline == "NL"                \* the one character "\n"
Whitespace == {Space, Newline}

LatinPhrases == {"contract", "indemnify", "Hold Harmless", "AS IS", "non-compete"}

Digits == "digits110"

HindiPhrases == {"kshatipurti"}

LongHindi == "ka2250"

\* the phrases of body text and heading marks, all in Latin script
BodyPhrases == {"body50", "body51", "A.", "Section 2"}

\* what extract_text returns when the file cannot be read
ErrorText == "Error extracting text: EOF marker not found"
ErrorTextLower == "error extracting text: eof marker not found"

Vocabulary == {Space, Digits} \cup LatinPhrases \cup HindiPhrases

\* len(phrase)
TokLen(t) ==
    CASE t = Space -> 1
      [] t = Digits -> 110
      [] t = "contract" -> 8
      [] t = "indemnify" -> 9
      [] t = "Hold Harmless" -> 13
      [] t = "hold harmless" -> 13
      [] t = "AS IS" -> 5
      [] t = "as is" -> 5
      [] t = "non-compete" -> 11
      [] t = "kshatipurti" -> 11
      [] t = LongHindi -> 2250
      [] t = Newline -> 1
      [] t = "body50" -> 50
      [] t = "body51" -> 51
      [] t = "A." -> 2
      [] t = "Section 2" -> 9
      [] t = ErrorText -> 43
      [] t = "a." -> 2
      [] t = "section 2" -> 9
      [] t = ErrorTextLower -> 43

\* len(re.findall(r'[\w]', phrase))
TokWord(t) ==
    CASE t = Space -> 0
      [] t = Digits -> 110
      [] t = "contract" -> 8
      [] t = "indemnify" -> 9
      [] t = "Hold Harmless" -> 12
      [] t = "hold harmless" -> 12
      [] t = "AS IS" -> 4
      [] t = "as is" -> 4
      [] t = "non-compete" -> 10
      [] t = "kshatipurti" -> 6
      [] t = LongHindi -> 2250
      [] t = Newline -> 0
      [] t = "body50" -> 50
      [] t = "body51" -> 51
      [] t = "A." -> 1
      [] t = "Section 2" -> 8
      [] t = "a." -> 1
      [] t = "section 2" -> 8

\* len(re.findall(r'[\u0900-\u097F]', phrase))
TokDeva(t) ==
    CASE t = "kshatipurti" -> 11
      [] t = LongHindi -> 2250
      [] OTHER -> 0

\* phrase.lower()
TokLower(t) ==
    CASE t = "Hold Harmless" -> "hold harmless"
      [] t = "AS IS" -> "as is"
      [] t = "A." -> "a."
      [] t = "Section 2" -> "section 2"
      [] t = ErrorText -> ErrorTextLower
      [] OTHER -> t

RECURSIVE StrLen(_)
\* len(text)
StrLen(toks) ==
    IF toks = <<>> THEN 0 ELSE TokLen(Head(toks)) + StrLen(Tail(toks))

RECURSIVE WordChars(_)
\* len(re.findall(r'[\w]', text))
WordChars(toks) ==
    IF toks = <<>> THEN 0 ELSE TokWord(Head(toks)) + WordChars(Tail(toks))

RECURSIVE HindiChars(_)
\* len(re.findall(r'[\u0900-\u097F]', text))
HindiChars(toks) ==
    IF toks = <<>> THEN 0 ELSE TokDeva(Head(toks)) + HindiChars(Tail(toks))

\* str.lower()
Lower(toks) == [i \in DOMAIN toks |-> TokLower(toks[i])]

RECURSIVE LStrip(_)
LStrip(toks) ==
    IF toks # <<>> /\ Head(toks) \in Whitespace THEN LStrip(Tail(toks)) ELSE toks

RECURSIVE RStrip(_)
RStrip(toks) ==
    IF toks # <<>> /\ toks[Len(toks)] \in Whitespace
    THEN RStrip(SubSeq(toks, 1, Len(toks) - 1))
    ELSE toks

\* str.strip()
Strip(toks) == RStrip(LStrip(toks))

(***************************************************************************)
(* Values.  A value handed around is a str or None.  A clause also carries *)
(* stat, the answer the seeded langdetect routine gives on its text        *)
(* ("raise" when it throws); the routine is deterministic (seed 0), so the *)
(* answer belongs to the text.                                             *)
(***************************************************************************)
StatVerdicts == {"en", "hi", "fr", "raise"}

Str(toks) == [kind |-> "str", toks |-> toks]
NoneValue == [kind |-> "none", toks |-> <<>>]

ClauseOf(toks, stat) == [kind |-> "str", toks |-> toks, stat |-> stat]
NoneClause == [kind |-> "none", toks |-> <<>>, stat |-> "en"]

\* Python truthiness of a str-or-None value: "not text"
Falsy(v) == v.kind = "none" \/ v.toks = <<>>

(***************************************************************************)
(* language_utils.detect_language                                          *)
(***************************************************************************)
\* what the statistical routine does instead of answering when it fails
LangDetectException == "LangDetectException"

\* a Hindi test that also takes a ratio of exactly one half
HindiDominantInclusive(hindi_chars, total_chars) == 2 * hindi_chars >= total_chars

\* "hindi_ratio > 0.5"
HindiDominant(hindi_chars, total_chars) == 2 * hindi_chars > total_chars

\* the try block: the value it returns, or the exception that leaves it
detect_language_try(text) ==
    LET hindi_chars == HindiChars(text.toks)
        total_chars == WordChars(text.toks)
    IN IF total_chars = 0 THEN "en"
       ELSE IF HindiDominant(hindi_chars, total_chars) THEN "hi"
       ELSE IF 10 * hindi_chars > total_chars THEN "mixed"
       ELSE IF text.stat = "raise" THEN LangDetectException
       ELSE IF text.stat = "hi" THEN "hi" ELSE "en"

\* detect_language without its except clause
detect_language_uncaught(text) ==
    IF Falsy(text) \/ StrLen(Strip(text.toks)) < 10 THEN "en"
    ELSE detect_language_try(text)

detect_language(text) ==
    IF Falsy(text) \/ StrLen(Strip(text.toks)) < 10 THEN "en"
    ELSE IF detect_language_try(text) = LangDetectException THEN "en"
    ELSE detect_language_try(text)

(***************************************************************************)
(* The translation collaborator (GoogleTranslator.translate).  One request *)
(* ends in an exception, in None, or in some text.                         *)
(***************************************************************************)
RaiseOutcome == [kind |-> "raise", toks |-> <<>>]

TranslatedPhrases == {"contract", "non-compete", "AS IS"}

TranslatedTexts ==
    UNION {[1..n -> TranslatedPhrases] : n \in 0..MaxTransTokens}

TranslatorOutcomes ==
    {RaiseOutcome, NoneValue} \cup {Str(t) : t \in TranslatedTexts}

max_chunk_size == 4500

\* number of chunks translate_text cuts the text into
NumChunks(toks) ==
    IF StrLen(toks) > max_chunk_size
    THEN (StrLen(toks) + max_chunk_size - 1) \div max_chunk_size
    ELSE 1

\* behaviours of the collaborator during one translate_text call: the
\* outcome of the request for each chunk
Behaviours(toks) == [1..NumChunks(toks) -> TranslatorOutcomes]

RECURSIVE JoinChunks(_)
JoinChunks(outs) ==
    IF outs = <<>> THEN <<>>
    ELSE IF Len(outs) = 1 THEN outs[1].toks
    ELSE outs[1].toks \o <<Space>> \o JoinChunks(Tail(outs))

\* index of the first request that raises, 0 when none does
RECURSIVE FirstRaise(_, _)
FirstRaise(beh, k) ==
    IF k > Len(beh) THEN 0
    ELSE IF beh[k].kind = "raise" THEN k
    ELSE FirstRaise(beh, k + 1)

\* a loop over the chunks that a failed request does not end
NeverAborted(beh) == IF FirstRaise(beh, 1) # 0 THEN Len(beh) ELSE 0

\* the request whose exception ends the loop over the chunks, 0 when none
AbortedAt(beh) == FirstRaise(beh, 1)

\* "[text[i:i+max_chunk_size] for i in range(0, len(text), max_chunk_size)]"
Chunks(toks) ==
    [k \in 1..NumChunks(toks) |->
        [from |-> (k - 1) * max_chunk_size,
         to |-> IF k * max_chunk_size < StrLen(toks) THEN k * max_chunk_size
                ELSE StrLen(toks)]]

\* a handler that returns what had been translated before the failure
PartialResult(text, beh) == Str(JoinChunks(SubSeq(beh, 1, AbortedAt(beh) - 1)))

\* "except Exception as e: ... return text"
ExceptResult(text, beh) == [kind |-> text.kind, toks |-> text.toks]

(***************************************************************************)
(* language_utils.translate_text: the value returned and the number of     *)
(* requests issued.                                                        *)
(***************************************************************************)
\* an exception raised inside the try block after some requests
Raised(exception, requests, chunks) ==
    [value |-> NoneValue, requests |-> requests, chunks |-> chunks,
     exception |-> exception]

\* The try block.  chunks is the list of the slices text[i:i+max_chunk_size]
\* as pairs of character offsets (from inclusive, to exclusive); it is
\* empty when the text is not cut.
translate_text_try(text, target_lang, beh) ==
    LET same == [value |-> [kind |-> text.kind, toks |-> text.toks], requests |-> 0,
                 chunks |-> <<>>, exception |-> ""]
        chunks == IF StrLen(text.toks) > max_chunk_size THEN Chunks(text.toks)
                  ELSE <<>>
    IN  IF text.kind = "none"                                \* text.strip() raises
        THEN Raised("AttributeError", 0, <<>>)
        ELSE IF StrLen(Strip(text.toks)) < 5 THEN same
        ELSE IF detect_language(text) = target_lang THEN same
        ELSE IF AbortedAt(beh) # 0
             THEN Raised("translate", AbortedAt(beh), chunks)
        ELSE IF Len(beh) = 1
             THEN [value |-> [kind |-> beh[1].kind, toks |-> beh[1].toks],
                   requests |-> 1, chunks |-> chunks, exception |-> ""]
        ELSE IF \E k \in DOMAIN beh : beh[k].kind = "none"
             THEN Raised("TypeError", Len(beh), chunks)      \* join raises
        ELSE [value |-> Str(JoinChunks(beh)), requests |-> Len(beh),
              chunks |-> chunks, exception |-> ""]

\* the try block and its handler: no exception leaves the function
translate_text(text, target_lang, beh) ==
    LET r == translate_text_try(text, target_lang, beh)
    IN [value |-> IF r.exception # "" THEN ExceptResult(text, beh) ELSE r.value,
        requests |-> r.requests,
        chunks |-> r.chunks,
        raised |-> FALSE]

(***************************************************************************)
(* risk_rules.RISK_PATTERNS and RISK_LEVELS.  The categories are kept in   *)
(* the insertion order of the table.  The signatures of a category are     *)
(* given by the phrases of the vocabulary (lower-cased) that one of its    *)
(* patterns matches: indemnify, hold\s+harmless and the Devanagari         *)
(* kshatipurti for Indemnification, non-?compete for Non-Compete,          *)
(* as\s+is for Limited Warranty.  No pattern matches across a phrase       *)
(* boundary of this vocabulary.                                            *)
(***************************************************************************)
RiskTypes ==
    << "Liability Cap", "Indemnification", "Automatic Renewal",
       "Termination Fee", "IP Transfer", "Non-Compete", "Arbitration Clause",
       "Unilateral Changes", "Limited Warranty", "Data Rights", "Jurisdiction",
       "Confidentiality Burden", "Payment Terms", "Force Majeure Abuse",
       "Assignment Rights" >>

RISK_PATTERNS(risk_type) ==
    CASE risk_type = "Indemnification" -> {"indemnify", "hold harmless", "kshatipurti"}
      [] risk_type = "Non-Compete" -> {"non-compete"}
      [] risk_type = "Limited Warranty" -> {"as is"}
      [] OTHER -> {}

RISK_LEVELS ==
    [r \in {RiskTypes[k] : k \in DOMAIN RiskTypes} |->
        CASE r \in {"Liability Cap", "Indemnification", "IP Transfer", "Data Rights"}
               -> "High"
          [] r \in {"Arbitration Clause", "Limited Warranty", "Jurisdiction",
                    "Force Majeure Abuse"} -> "Low"
          [] OTHER -> "Medium"]

\* re.search(pattern, test_clause, re.IGNORECASE)
re_search(pattern, test_clause) ==
    \E i \in DOMAIN test_clause : TokLower(test_clause[i]) = pattern

(***************************************************************************)
(* risk_rules.detect_risks                                                 *)
(***************************************************************************)
\* variant of TooShort: the limit taken inclusive (<= 20)
TooShortInclusive(clause) == Falsy(clause) \/ StrLen(Strip(clause.toks)) <= 20

\* the guard of the early return
TooShort(clause) == Falsy(clause) \/ StrLen(Strip(clause.toks)) < 20

\* variant of clauses_to_check: the translation takes the place of the clause
clauses_to_check_replace(clause, lang, translated) ==
    IF lang \in {"hi", "mixed"} /\ translated.kind = "str"
    THEN << Lower(translated.toks) >>
    ELSE << Lower(clause.toks) >>

\* the texts scanned: the lower-cased clause, then the lower-cased
\* translation when the try block completed (translated.lower() raises
\* on None, and the bare except drops the variant)
clauses_to_check(clause, lang, translated) ==
    IF lang \in {"hi", "mixed"} /\ translated.kind = "str"
    THEN << Lower(clause.toks), Lower(translated.toks) >>
    ELSE << Lower(clause.toks) >>

\* the scan loop: one entry per category, in table order, that has a
\* pattern matching one of the texts
RECURSIVE ScanFrom(_, _)
ScanFrom(k, texts) ==
    IF k > Len(RiskTypes) THEN <<>>
    ELSE LET found == \E v \in DOMAIN texts :
                          \E pattern \in RISK_PATTERNS(RiskTypes[k]) :
                              re_search(pattern, texts[v])
         IN (IF found THEN << RiskTypes[k] >> ELSE <<>>) \o ScanFrom(k + 1, texts)

\* variant of ScanPatterns: categories collected phrase by phrase, in the
\* order the signatures occur in the texts
RECURSIVE ScanText(_)
ScanText(text) ==
    IF text = <<>> THEN <<>>
    ELSE ScanFrom(1, << << Head(text) >> >>) \o ScanText(Tail(text))

RECURSIVE ScanPatternsByPosition(_)
ScanPatternsByPosition(texts) ==
    IF texts = <<>> THEN <<>>
    ELSE ScanText(Head(texts)) \o ScanPatternsByPosition(Tail(texts))

\* variant of ScanPatterns: only the last text of the list is scanned
ScanPatternsLastOnly(texts) == ScanFrom(1, << texts[Len(texts)] >>)

ScanPatterns(texts) == ScanFrom(1, texts)

\* "Remove duplicates while preserving order"
RECURSIVE unique_risks(_)
unique_risks(risks) ==
    IF risks = <<>> THEN <<>>
    ELSE LET init == unique_risks(SubSeq(risks, 1, Len(risks) - 1))
             last == risks[Len(risks)]
         IN IF \E i \in DOMAIN init : init[i] = last THEN init
            ELSE Append(init, last)

\* One call: the list returned, the number of calls detect_risks itself
\* makes to detect_language, the number of translation requests issued,
\* and whether an exception leaves the function.
detect_risks(clause, beh) ==
    IF TooShort(clause)
    THEN [risks |-> <<>>, lang |-> "", lang_calls |-> 0, requests |-> 0,
          raised |-> FALSE]
    ELSE LET lang == detect_language(clause)
             tr == IF lang \in {"hi", "mixed"}
                   THEN translate_text(clause, "en", beh)
                   ELSE [value |-> NoneValue, requests |-> 0]
             texts == clauses_to_check(clause, lang, tr.value)
         IN IF lang = LangDetectException
            THEN [risks |-> <<>>, lang |-> lang, lang_calls |-> 1,
                  requests |-> 0, raised |-> TRUE]
            ELSE [risks |-> unique_risks(ScanPatterns(texts)),
                  lang |-> lang,
                  lang_calls |-> 1,
                  requests |-> tr.requests,
                  raised |-> FALSE]

(***************************************************************************)
(* risk_rules.get_risk_severity and the arithmetic of calculate_risk_score *)
(***************************************************************************)
\* a lookup whose default is the lowest severity
get_risk_severity_default_low(risk_type) ==
    IF risk_type \in DOMAIN RISK_LEVELS THEN RISK_LEVELS[risk_type] ELSE "Low"

\* RISK_LEVELS.get(risk_type, "Medium")
get_risk_severity(risk_type) ==
    IF risk_type \in DOMAIN RISK_LEVELS THEN RISK_LEVELS[risk_type] ELSE "Medium"

\* variant of SeverityCounts: only the first category of a clause is counted
SeverityCountsFirstOnly(risks) ==
    IF risks = <<>> THEN [high |-> 0, medium |-> 0, low |-> 0]
    ELSE LET level == get_risk_severity(risks[1])
         IN [high |-> IF level = "High" THEN 1 ELSE 0,
             medium |-> IF level = "Medium" THEN 1 ELSE 0,
             low |-> IF level \notin {"High", "Medium"} THEN 1 ELSE 0]

\* the if / elif / else of the inner loop, over the whole match list
SeverityCounts(risks) ==
    LET high == Cardinality({i \in DOMAIN risks : get_risk_severity(risks[i]) = "High"})
        medium == Cardinality({i \in DOMAIN risks : get_risk_severity(risks[i]) = "Medium"})
    IN [high |-> high, medium |-> medium, low |-> Len(risks) - high - medium]

\* variant of RawScore: the density is not weighted by 25
RawScoreUnweightedDensity(n, total, high, medium, low) ==
    100 * n - total - n * (8 * high + 4 * medium + 2 * low)

\* variant of RawScore: the Low penalty is added instead of subtracted
RawScoreLowAdded(n, total, high, medium, low) ==
    100 * n - 25 * total - n * (8 * high + 4 * medium) + n * 2 * low

\* score * len(clauses) before clamping:
\* 100 - (total_risks / len(clauses)) * 25 - high * 8 - medium * 4 - low * 2
RawScore(n, total, high, medium, low) ==
    100 * n - 25 * total - n * (8 * high + 4 * medium + 2 * low)

\* variant of Clamp: min(100, score) without the lower limit
ClampUpperOnly(num, n) == IF num < 100 * n THEN num ELSE 100 * n

\* max(0, min(100, score)), on the numerator over n
Clamp(num, n) ==
    LET upper == IF num < 100 * n THEN num ELSE 100 * n
    IN IF upper > 0 THEN upper ELSE 0

\* the grade ladder, applied to the clamped, unrounded score num / n
GradeOf(num, n) ==
    IF num >= 90 * n THEN "A+"
    ELSE IF num >= 80 * n THEN "A"
    ELSE IF num >= 70 * n THEN "B"
    ELSE IF num >= 60 * n THEN "C"
    ELSE IF num >= 50 * n THEN "D"
    ELSE "F"

\* round(score, 1) in tenths: nearest, ties to even
Round1(num, n) ==
    LET q == (10 * num) \div n
        r == (10 * num) % n
    IN IF 2 * r > n \/ (2 * r = n /\ q % 2 = 1) THEN q + 1 ELSE q

\* variant of EmptyReport: an empty document is given the worst score
EmptyReportWorst ==
    [score |-> 0, grade |-> "F", total_clauses |-> 0, risky_clauses |-> 0,
     high_risk_count |-> 0, medium_risk_count |-> 0, low_risk_count |-> 0]

\* the report of the early return
EmptyReport ==
    [score |-> 1000, grade |-> "A+", total_clauses |-> 0, risky_clauses |-> 0,
     high_risk_count |-> 0, medium_risk_count |-> 0, low_risk_count |-> 0]

\* the report built after the loop
FinalReport(n, total, high, medium, low, risky) ==
    LET score == Clamp(RawScore(n, total, high, medium, low), n)
    IN [score |-> Round1(score, n), grade |-> GradeOf(score, n),
        total_clauses |-> n, risky_clauses |-> risky,
        high_risk_count |-> high, medium_risk_count |-> medium,
        low_risk_count |-> low]

(***************************************************************************)
(* text_utils.split_clauses.  The document is a sequence of phrases too:   *)
(*   "NL"         the newline character                                    *)
(*   "body50"     50 lower-case letters x                                  *)
(*   "body51"     51 lower-case letters y                                  *)
(*   "A."         a lettered heading mark                                  *)
(*   "Section 2"  a section heading mark                                   *)
(* A newline occurs only as the phrase "NL", and no phrase starts with a   *)
(* digit, so a delimiter of combined_pattern always covers whole phrases:  *)
(* "\n[A-Z]\.\s+" covers "NL", "A." and the whole run of blanks and        *)
(* newlines behind it (at least one), "\nSection\s+\d+" covers "NL" and    *)
(* "Section 2".  The other alternatives match nothing in these documents.  *)
(***************************************************************************)
SplitVocabulary == {Space, Newline, "body50", "body51", "A.", "Section 2"}

RECURSIVE SkipWhitespace(_, _)
\* the first position at or after i that holds no blank or newline
SkipWhitespace(toks, i) ==
    IF i <= Len(toks) /\ toks[i] \in Whitespace
    THEN SkipWhitespace(toks, i + 1)
    ELSE i

\* the last position of the match of combined_pattern that starts at
\* position i, 0 when none starts there
DelimiterEnd(toks, i) ==
    IF toks[i] # Newline \/ i = Len(toks) THEN 0
    ELSE IF toks[i + 1] = "Section 2" THEN i + 1
    ELSE IF /\ toks[i + 1] = "A."
            /\ i + 2 <= Len(toks)
            /\ toks[i + 2] \in Whitespace
         THEN SkipWhitespace(toks, i + 2) - 1
    ELSE 0

RECURSIVE ReSplitFrom(_, _, _)
ReSplitFrom(toks, start, i) ==
    IF i > Len(toks) THEN << SubSeq(toks, start, Len(toks)) >>
    ELSE IF DelimiterEnd(toks, i) # 0
         THEN << SubSeq(toks, start, i - 1) >>
              \o ReSplitFrom(toks, DelimiterEnd(toks, i) + 1, DelimiterEnd(toks, i) + 1)
    ELSE ReSplitFrom(toks, start, i + 1)

\* re.split(combined_pattern, text)
re_split(toks) == ReSplitFrom(toks, 1, 1)

RECURSIVE ParagraphsFrom(_, _, _)
ParagraphsFrom(toks, start, i) ==
    IF i > Len(toks) THEN << SubSeq(toks, start, Len(toks)) >>
    ELSE IF i < Len(toks) /\ toks[i] = Newline /\ toks[i + 1] = Newline
         THEN << SubSeq(toks, start, i - 1) >> \o ParagraphsFrom(toks, i + 2, i + 2)
    ELSE ParagraphsFrom(toks, start, i + 1)

\* text.split('\n\n')
split_paragraphs(toks) == ParagraphsFrom(toks, 1, 1)

\* a length filter that keeps a segment of exactly 50 characters
LongEnoughInclusive(toks) == StrLen(toks) >= 50

\* "len(clause) > 50"
LongEnough(toks) == StrLen(toks) > 50

\* the segments stripped, those that are long enough kept, in order
CleanSegments(segments) ==
    SelectSeq([i \in DOMAIN segments |-> Strip(segments[i])], LongEnough)

\* a fallback taken only when the delimiter split found nothing
NeedsFallbackWhenEmpty(cleaned) == Len(cleaned) < 1

\* "if len(cleaned_clauses) < 2"
NeedsFallback(cleaned) == Len(cleaned) < 2

\* the list split_clauses returns
split_clauses(toks) ==
    IF NeedsFallback(CleanSegments(re_split(toks)))
    THEN CleanSegments(split_paragraphs(toks))
    ELSE CleanSegments(re_split(toks))

(***************************************************************************)
(* risk_explanations and ai_explainer.  A returned explanation is the list *)
(* of the pieces that "\n\n---\n\n".join puts together (one piece for a    *)
(* plain string, none for the empty string); a piece is a template, a      *)
(* one-line notice or the text the generative service answered.  The Hindi *)
(* notices are written in Latin transliteration.                           *)
(***************************************************************************)
\* risk_type=None
NoCategory == "None"

\* the keys of EXPLANATIONS
EXPLANATIONS == {RiskTypes[k] : k \in DOMAIN RiskTypes}

\* the keys of hindi_explanations
hindi_explanations == {"Liability Cap", "Indemnification"}

Template(language, about) == [kind |-> "template", language |-> language, about |-> about]
Notice(language, about) == [kind |-> "notice", language |-> language, about |-> about]
Generated == [kind |-> "generated", language |-> "any", about |-> "response"]

\* the text for a category that has no entry advises to consult a professional
get_template_explanation(risk_type) ==
    IF risk_type \in EXPLANATIONS THEN Template("en", risk_type)
    ELSE Template("en", "generic")

get_hindi_template_explanation(risk_type) ==
    IF risk_type \in hindi_explanations THEN Template("hi", risk_type)
    ELSE Template("hi", "generic")

\* "if risk_type"
CategoryGiven(risk_type) == risk_type \notin {NoCategory, ""}

\* the template in the language asked for: Hindi for "hi", English otherwise
TemplateIn(language, risk_type) ==
    IF language = "hi" THEN get_hindi_template_explanation(risk_type)
    ELSE get_template_explanation(risk_type)

\* what explain_clause returns instead of a generated explanation
ClauseFallback(language, risk_type, hindi_notice, english_notice) ==
    IF CategoryGiven(risk_type) THEN TemplateIn(language, risk_type)
    ELSE IF language = "hi" THEN Notice("hi", hindi_notice)
    ELSE Notice("en", english_notice)

\* a fallback that explains every risk of the list
RisksFallbackAll(language, risks) ==
    [i \in DOMAIN risks |-> TemplateIn(language, risks[i])]

\* what explain_multiple_risks returns instead: "for risk in risks[:2]"
RisksFallback(language, risks) ==
    [i \in 1..(IF Len(risks) < 2 THEN Len(risks) ELSE 2) |-> TemplateIn(language, risks[i])]

\* "if not AI_AVAILABLE or not client"
Unavailable(available, the_client) == ~available \/ the_client = "None"

\* One call of explain_clause: outcome is how the generative request ends if
\* one is issued ("text" or "raise").  Returned: the explanation, the number
\* of requests issued and whether an exception leaves the function.
explain_clause(available, the_client, language, risk_type, outcome) ==
    IF Unavailable(available, the_client)
    THEN [result |-> << ClauseFallback(language, risk_type,
                                       "AI anupalabdh hai.", "AI unavailable.") >>,
          requests |-> 0, raised |-> FALSE]
    ELSE IF outcome = "raise"
    THEN [result |-> << ClauseFallback(language, risk_type,
                                       "AI asthayi rup se anupalabdh hai.",
                                       "AI temporarily unavailable.") >>,
          requests |-> 1, raised |-> FALSE]
    ELSE [result |-> << Generated >>, requests |-> 1, raised |-> FALSE]

\* One call of explain_multiple_risks
explain_multiple_risks(available, the_client, risks, language, outcome) ==
    IF Unavailable(available, the_client)
    THEN [result |-> RisksFallback(language, risks), requests |-> 0, raised |-> FALSE]
    ELSE IF outcome = "raise"
    THEN [result |-> RisksFallback(language, risks), requests |-> 1, raised |-> FALSE]
    ELSE [result |-> << Generated >>, requests |-> 1, raised |-> FALSE]

\* the configured secret GROQ_API_KEY: absent, or a string
SecretMissing == "<no entry>"

\* GROQ_API_KEY.strip().strip('"').strip("'")
CleanKey(key) ==
    CASE key = " 'gsk_live' " -> "gsk_live"
      [] OTHER -> key

\* GROQ_API_KEY.startswith('gsk_')
StartsWithGsk(key) == key = "gsk_live"

(***************************************************************************)
(* State                                                                   *)
(***************************************************************************)
VARIABLES
    clause,             \* the clause detect_risks is called on
    runs,               \* what each detect_risks call on it returned
    clauses,            \* the list handed to calculate_risk_score
    pc,                 \* position in calculate_risk_score
    idx,                \* index of the next clause of the for loop
    total_risks, high_risks, medium_risks, low_risks, risky_clause_count,
    matches,            \* the list detect_risks returned for each clause so far
    report,             \* the dictionary returned
    text,               \* the text split_clauses is called on
    split_pc,           \* position in split_clauses
    cleaned_clauses,    \* its list cleaned_clauses
    lang_text,          \* the text detect_language or translate_text is called on
    detected,           \* the value detect_language returned
    target_lang,        \* the language translate_text is asked for
    translation,        \* what became of the translate_text call
    risk_list,          \* a list of categories whose severities are asked for
    levels,             \* what get_risk_severity returned for each of them
    tally,              \* the three counters after the scorer's loop over them
    secret,             \* what st.secrets holds for GROQ_API_KEY
    module_state,       \* whether ai_explainer has been imported, and how that ended
    AI_AVAILABLE,       \* the module's flag
    client,             \* the module's client: "None" or "Groq"
    last_call,          \* the latest explain call: arguments and what came of it
    uploaded_file,      \* the file of an analysis run: its content, and whether it can be read
    contract_text,      \* what extract_text returned for it
    run_pc,             \* position of the analysis run
    risky_count,        \* the number the detailed listing announces
    listed,             \* what detect_risks returned for each clause in the listing loop
    exported            \* what it returned for each clause in the loop of the export report

scoreVars == << clause, runs, clauses, pc, idx, total_risks, high_risks,
                medium_risks, low_risks, risky_clause_count, matches, report >>

splitVars == << text, split_pc, cleaned_clauses >>

langVars == << lang_text, detected, target_lang, translation >>

severityVars == << risk_list, levels, tally >>

explainVars == << secret, module_state, AI_AVAILABLE, client, last_call >>

runVars == << uploaded_file, contract_text, run_pc, risky_count, listed, exported >>

vars == << scoreVars, splitVars, langVars, severityVars, explainVars, runVars >>

NoReport == [score |-> -1, grade |-> "", total_clauses |-> -1, risky_clauses |-> -1,
             high_risk_count |-> -1, medium_risk_count |-> -1, low_risk_count |-> -1]

\* no file has been uploaded
NoUpload == [content |-> <<>>, readable |-> FALSE]

\* no analysis run is going on
RunIdle ==
    /\ uploaded_file = NoUpload
    /\ contract_text = <<>>
    /\ run_pc = "idle"
    /\ risky_count = -1
    /\ listed = <<>>
    /\ exported = <<>>

NoCall == [fn |-> "", language |-> "", risk_type |-> NoCategory, risks |-> <<>>,
           outcome |-> "", requests |-> 0, raised |-> FALSE, result |-> <<>>,
           failed_before |-> FALSE]

\* ai_explainer is not part of the run
ExplainerIdle ==
    /\ secret = SecretMissing
    /\ module_state = "absent"
    /\ AI_AVAILABLE = FALSE
    /\ client = "None"
    /\ last_call = NoCall

NoLevels == << "pending" >>
NoTally == [high |-> -1, medium |-> -1, low |-> -1]

\* no severity is being looked up
SeverityIdle ==
    /\ risk_list = <<>>
    /\ levels = NoLevels
    /\ tally = NoTally

NoTranslation == [called |-> FALSE, value |-> NoneValue, requests |-> 0,
                  chunks |-> <<>>, answers |-> <<>>, raised |-> FALSE]

\* detect_language and translate_text are not running
LangIdle ==
    /\ lang_text = NoneClause
    /\ detected = ""
    /\ target_lang = ""
    /\ translation = NoTranslation

\* split_clauses is not running
SplitIdle ==
    /\ text = <<>>
    /\ split_pc = "idle"
    /\ cleaned_clauses = <<>>

RECURSIVE Repeat(_, _)
Repeat(x, n) == IF n = 0 THEN <<>> ELSE << x >> \o Repeat(x, n - 1)

\* every text of at most MaxTokens phrases
Texts == UNION {[1..n -> Vocabulary] : n \in 0..MaxTokens}

\* whether detect_language hands the text to the statistical routine
StatConsulted(toks) ==
    /\ StrLen(Strip(toks)) >= 10
    /\ WordChars(toks) > 0
    /\ 10 * HindiChars(toks) <= WordChars(toks)

RECURSIVE Sample(_, _)
\* "text[:500]": the phrases that begin among the first limit characters
\* (the last of them may be cut short; each phrase begins with one of its
\* letters, if it has any)
Sample(toks, limit) ==
    IF toks = <<>> \/ limit <= 0 THEN <<>>
    ELSE << Head(toks) >> \o Sample(Tail(toks), limit - TokLen(Head(toks)))

\* the answers the statistical routine can give on a text: it raises when
\* its sample has no letter, reports Hindi only for a sample with Devanagari
\* letters, and a Latin-script language only for a sample with Latin letters
FeasibleVerdicts(toks) ==
    LET sample == Sample(toks, 500)
        latin == \E i \in DOMAIN sample : sample[i] \in LatinPhrases \cup BodyPhrases
        hindi == \E i \in DOMAIN sample : sample[i] \in HindiPhrases
    IN  IF ~StatConsulted(toks) THEN {"en"}
        ELSE { v \in StatVerdicts :
                 /\ v = "raise" => (~latin /\ ~hindi)
                 /\ v = "hi" => hindi
                 /\ v \in {"en", "fr"} => latin }

ClauseInputs ==
    {NoneClause} \cup
    UNION { {ClauseOf(toks, stat) : stat \in FeasibleVerdicts(toks)} : toks \in Texts }

\* the clauses documents are built from
BenignClause == ClauseOf(<< "contract", Space, "contract", Space, "contract" >>, "en")
LowClause == ClauseOf(<< "AS IS", Space, "contract", Space, "contract" >>, "en")
MediumClause == ClauseOf(<< "non-compete", Space, "contract" >>, "en")
HighClause == ClauseOf(<< "indemnify", Space, "Hold Harmless" >>, "en")
MultiClause == ClauseOf(<< "AS IS", Space, "non-compete", Space, "indemnify" >>, "en")
HindiClause == ClauseOf(<< "kshatipurti", Space, "kshatipurti" >>, "en")
ShortClause == ClauseOf(<< "AS IS", Space, "indemnify" >>, "en")
EmptyClause == ClauseOf(<<>>, "en")

Catalogue ==
    { BenignClause, LowClause, MediumClause, HighClause, MultiClause,
      HindiClause, ShortClause, EmptyClause, NoneClause }

\* short documents of arbitrary clauses in arbitrary order
MixedDocuments == UNION {[1..n -> Catalogue] : n \in 0..MaxMixed}

\* long documents: copies of one risky clause, Medium clauses, benign padding
LongDocuments ==
    { Repeat(risky, k) \o Repeat(MediumClause, m) \o Repeat(BenignClause, b) :
        risky \in {HighClause, LowClause}, k \in 0..MaxRisky,
        m \in 0..MaxMedium, b \in 0..MaxBenign }

Documents == MixedDocuments \cup LongDocuments

\* the behaviours of the translator that a detect_risks call can observe:
\* none when the call issues no request
ObservableBehaviours(c) ==
    IF TooShort(c) \/ detect_language(c) \notin {"hi", "mixed"}
    THEN { << >> }
    ELSE Behaviours(c.toks)

(***************************************************************************)
(* detect_risks called on one clause, then called again on the same clause *)
(***************************************************************************)
InitDetect ==
    /\ clause \in ClauseInputs
    /\ runs = <<>>
    /\ clauses = <<>>
    /\ pc = "idle"
    /\ idx = 0
    /\ total_risks = 0 /\ high_risks = 0 /\ medium_risks = 0 /\ low_risks = 0
    /\ risky_clause_count = 0
    /\ matches = <<>>
    /\ report = NoReport
    /\ SplitIdle
    /\ LangIdle
    /\ SeverityIdle
    /\ ExplainerIdle
    /\ RunIdle

\* what one call leaves in runs; outcomes records how each translation
\* request issued ended
DetectRun(c, beh) ==
    LET r == detect_risks(c, beh)
    IN [risks |-> r.risks, lang |-> r.lang, lang_calls |-> r.lang_calls,
        requests |-> r.requests,
        raised |-> r.raised,
        outcomes |-> [k \in 1..r.requests |-> beh[k].kind]]

RunOf(beh) == DetectRun(clause, beh)

\* the first call
CallDetectRisks ==
    /\ runs = <<>>
    /\ \E beh \in ObservableBehaviours(clause) : runs' = << RunOf(beh) >>
    /\ UNCHANGED << clause, clauses, pc, idx, total_risks, high_risks, medium_risks,
                    low_risks, risky_clause_count, matches, report >>
    /\ UNCHANGED << splitVars, langVars, severityVars, explainVars, runVars >>

\* a second call on the same clause
CallDetectRisksAgain ==
    /\ Len(runs) = 1
    /\ \E beh \in ObservableBehaviours(clause) : runs' = Append(runs, RunOf(beh))
    /\ UNCHANGED << clause, clauses, pc, idx, total_risks, high_risks, medium_risks,
                    low_risks, risky_clause_count, matches, report >>
    /\ UNCHANGED << splitVars, langVars, severityVars, explainVars, runVars >>

NextDetect == CallDetectRisks \/ CallDetectRisksAgain

SpecDetect == InitDetect /\ [][NextDetect]_vars

(***************************************************************************)
(* calculate_risk_score on one document                                    *)
(***************************************************************************)
Init ==
    /\ clauses \in Documents
    /\ pc = "start"
    /\ idx = 0
    /\ total_risks = 0 /\ high_risks = 0 /\ medium_risks = 0 /\ low_risks = 0
    /\ risky_clause_count = 0
    /\ matches = <<>>
    /\ report = NoReport
    /\ SplitIdle
    /\ LangIdle
    /\ SeverityIdle
    /\ ExplainerIdle
    /\ RunIdle
    /\ clause = NoneClause
    /\ runs = <<>>

\* "if not clauses: return {...}"
ReturnEmpty ==
    /\ pc = "start"
    /\ clauses = <<>>
    /\ report' = EmptyReport
    /\ pc' = "done"
    /\ UNCHANGED << clause, runs, clauses, idx, total_risks, high_risks,
                    medium_risks, low_risks, risky_clause_count, matches >>
    /\ UNCHANGED << splitVars, langVars, severityVars, explainVars, runVars >>

\* the counters are set to 0 and the loop is entered
EnterLoop ==
    /\ pc = "start"
    /\ clauses # <<>>
    /\ total_risks' = 0 /\ high_risks' = 0 /\ medium_risks' = 0 /\ low_risks' = 0
    /\ risky_clause_count' = 0
    /\ idx' = 1
    /\ pc' = "loop"
    /\ UNCHANGED << clause, runs, clauses, matches, report >>
    /\ UNCHANGED << splitVars, langVars, severityVars, explainVars, runVars >>

\* one iteration of "for clause in clauses"
ScoreClause ==
    /\ pc = "loop"
    /\ idx <= Len(clauses)
    /\ \E beh \in ObservableBehaviours(clauses[idx]) :
          LET risks == detect_risks(clauses[idx], beh).risks
              counts == SeverityCounts(risks)
          IN /\ risky_clause_count' =
                    risky_clause_count + (IF risks # <<>> THEN 1 ELSE 0)
             /\ total_risks' = total_risks + Len(risks)
             /\ high_risks' = high_risks + counts.high
             /\ medium_risks' = medium_risks + counts.medium
             /\ low_risks' = low_risks + counts.low
             /\ matches' = Append(matches, risks)
    /\ idx' = idx + 1
    /\ UNCHANGED << clause, runs, clauses, pc, report >>
    /\ UNCHANGED << splitVars, langVars, severityVars, explainVars, runVars >>

\* score, grade and the returned dictionary
ReturnReport ==
    /\ pc = "loop"
    /\ idx > Len(clauses)
    /\ report' = FinalReport(Len(clauses), total_risks, high_risks, medium_risks,
                             low_risks, risky_clause_count)
    /\ pc' = "done"
    /\ UNCHANGED << clause, runs, clauses, idx, total_risks, high_risks,
                    medium_risks, low_risks, risky_clause_count, matches >>
    /\ UNCHANGED << splitVars, langVars, severityVars, explainVars, runVars >>

Next == ReturnEmpty \/ EnterLoop \/ ScoreClause \/ ReturnReport

Spec == Init /\ [][Next]_vars

(***************************************************************************)
(* detect_language on one text                                             *)
(***************************************************************************)
\* texts of more than 500 characters: digits, then one more phrase
LongTexts == { Repeat(Digits, 5) \o << t >> : t \in Vocabulary }

LanguageInputs ==
    ClauseInputs \cup
    UNION { {ClauseOf(toks, stat) : stat \in FeasibleVerdicts(toks)} : toks \in LongTexts }

InitLanguage ==
    /\ lang_text \in LanguageInputs
    /\ detected = ""
    /\ target_lang = ""
    /\ translation = NoTranslation
    /\ clause = NoneClause
    /\ runs = <<>>
    /\ clauses = <<>>
    /\ pc = "idle"
    /\ idx = 0
    /\ total_risks = 0 /\ high_risks = 0 /\ medium_risks = 0 /\ low_risks = 0
    /\ risky_clause_count = 0
    /\ matches = <<>>
    /\ report = NoReport
    /\ SplitIdle
    /\ SeverityIdle
    /\ ExplainerIdle
    /\ RunIdle

\* one call of detect_language
CallDetectLanguage ==
    /\ detected = ""
    /\ detected' = detect_language(lang_text)
    /\ UNCHANGED << lang_text, target_lang, translation >>
    /\ UNCHANGED << scoreVars, splitVars, severityVars, explainVars, runVars >>

NextLanguage == CallDetectLanguage

SpecLanguage == InitLanguage /\ [][NextLanguage]_vars

(***************************************************************************)
(* translate_text on one text                                              *)
(***************************************************************************)
\* texts that are too short to be translated, texts in English and in
\* Hindi, and Hindi texts of one to several chunks
TranslateTexts ==
    { <<>>, << Space >>, << Space, "A.", Newline >>, << "AS IS" >>, << "contract" >>,
      << "contract", Space, "indemnify" >>, << "kshatipurti", Space, "kshatipurti" >> }
    \cup { Repeat(LongHindi, k) : k \in 1..MaxLongTokens }
    \cup { << "kshatipurti", Space >> \o Repeat(LongHindi, k) : k \in 1..MaxLongTokens }

TranslateInputs ==
    {NoneClause} \cup
    UNION { {ClauseOf(toks, stat) : stat \in FeasibleVerdicts(toks)} :
              toks \in TranslateTexts }

TargetLanguages == {"en", "hi"}

InitTranslate ==
    /\ lang_text \in TranslateInputs
    /\ target_lang \in TargetLanguages
    /\ detected = ""
    /\ translation = NoTranslation
    /\ clause = NoneClause
    /\ runs = <<>>
    /\ clauses = <<>>
    /\ pc = "idle"
    /\ idx = 0
    /\ total_risks = 0 /\ high_risks = 0 /\ medium_risks = 0 /\ low_risks = 0
    /\ risky_clause_count = 0
    /\ matches = <<>>
    /\ report = NoReport
    /\ SplitIdle
    /\ SeverityIdle
    /\ ExplainerIdle
    /\ RunIdle

\* the behaviours of the translator that are told apart: behaviours that
\* agree up to the first request that raises are one behaviour
TranslatorBehaviours(toks) ==
    { beh \in Behaviours(toks) :
        \A k \in DOMAIN beh : k > AbortedAt(beh) /\ AbortedAt(beh) # 0
                                 => beh[k] = RaiseOutcome }

\* one call of translate_text; answers holds what the translator answered
\* to each request issued
CallTranslateText ==
    /\ ~translation.called
    /\ \E beh \in TranslatorBehaviours(lang_text.toks) :
          LET r == translate_text(lang_text, target_lang, beh)
          IN translation' = [called |-> TRUE, value |-> r.value,
                             requests |-> r.requests, chunks |-> r.chunks,
                             answers |-> SubSeq(beh, 1, r.requests),
                             raised |-> r.raised]
    /\ UNCHANGED << lang_text, detected, target_lang >>
    /\ UNCHANGED << scoreVars, splitVars, severityVars, explainVars, runVars >>

NextTranslate == CallTranslateText

SpecTranslate == InitTranslate /\ [][NextTranslate]_vars

(***************************************************************************)
(* get_risk_severity on each category of a list, and the inner loop of     *)
(* calculate_risk_score over that list                                     *)
(***************************************************************************)
\* a category that RISK_LEVELS does not list
UnlistedCategory == "Penalty Clause"

CategoryNames == {RiskTypes[k] : k \in DOMAIN RiskTypes} \cup {UnlistedCategory}

RiskLists == UNION {[1..n -> CategoryNames] : n \in 0..MaxRisks}

InitSeverity ==
    /\ risk_list \in RiskLists
    /\ levels = NoLevels
    /\ tally = NoTally
    /\ clause = NoneClause
    /\ runs = <<>>
    /\ clauses = <<>>
    /\ pc = "idle"
    /\ idx = 0
    /\ total_risks = 0 /\ high_risks = 0 /\ medium_risks = 0 /\ low_risks = 0
    /\ risky_clause_count = 0
    /\ matches = <<>>
    /\ report = NoReport
    /\ SplitIdle
    /\ LangIdle
    /\ ExplainerIdle
    /\ RunIdle

\* get_risk_severity called on every category of the list
LookUpSeverities ==
    /\ levels = NoLevels
    /\ levels' = [i \in DOMAIN risk_list |-> get_risk_severity(risk_list[i])]
    /\ UNCHANGED << risk_list, tally, scoreVars, splitVars, langVars, explainVars, runVars >>

\* "for risk in risks": the three counters, starting from 0
TallySeverities ==
    /\ tally = NoTally
    /\ tally' = SeverityCounts(risk_list)
    /\ UNCHANGED << risk_list, levels, scoreVars, splitVars, langVars, explainVars, runVars >>

NextSeverity == LookUpSeverities \/ TallySeverities

SpecSeverity == InitSeverity /\ [][NextSeverity]_vars

(***************************************************************************)
(* ai_explainer: the import of the module, then explain calls              *)
(***************************************************************************)
Secrets == {SecretMissing, "", "sk-other", "gsk_live", " 'gsk_live' "}

Languages == {"en", "hi", "both"}

\* how a generative request can end
GenerativeOutcomes == {"text", "raise"}

\* a category with a Hindi template, one without, one without any template
ExplainedCategories == {"Liability Cap", "Non-Compete", UnlistedCategory}

OptionalCategories == ExplainedCategories \cup {NoCategory, ""}

ExplainedLists == UNION {[1..n -> ExplainedCategories] : n \in 0..MaxExplained}

InitExplain ==
    /\ secret \in Secrets
    /\ module_state = "unloaded"
    /\ AI_AVAILABLE = FALSE
    /\ client = "None"
    /\ last_call = NoCall
    /\ clause = NoneClause
    /\ runs = <<>>
    /\ clauses = <<>>
    /\ pc = "idle"
    /\ idx = 0
    /\ total_risks = 0 /\ high_risks = 0 /\ medium_risks = 0 /\ low_risks = 0
    /\ risky_clause_count = 0
    /\ matches = <<>>
    /\ report = NoReport
    /\ SplitIdle
    /\ LangIdle
    /\ SeverityIdle
    /\ RunIdle

\* how the try block of the module body can end: Groq(api_key=...) raises
\* and no client is kept, or the client is made and the connection test
\* ends as a generative request does
StartupOutcomes == {"no client"} \cup GenerativeOutcomes

\* the module body: the secret is read, the key is cleaned, and for a key
\* that starts with gsk_ the client is made and the connection tested once
LoadModule ==
    /\ module_state = "unloaded"
    /\ IF secret = SecretMissing
       THEN /\ module_state' = "failed"
            /\ UNCHANGED << AI_AVAILABLE, client >>
       ELSE /\ module_state' = "loaded"
            /\ IF CleanKey(secret) # "" /\ StartsWithGsk(CleanKey(secret))
               THEN \E start \in StartupOutcomes :
                        /\ client' = IF start = "no client" THEN "None" ELSE "Groq"
                        /\ AI_AVAILABLE' = (start = "text")
               ELSE /\ client' = "None"
                    /\ AI_AVAILABLE' = FALSE
    /\ UNCHANGED << secret, last_call, scoreVars, splitVars, langVars, severityVars, runVars >>

\* whether a generative request of some call made so far has failed
FailedSoFar == last_call.failed_before \/ last_call.outcome = "raise"

\* what a call of explain_clause leaves in last_call; failed_before tells
\* whether a request of an earlier call had failed
ClauseCall(language, risk_type, outcome) ==
    LET r == explain_clause(AI_AVAILABLE, client, language, risk_type, outcome)
    IN [fn |-> "explain_clause", language |-> language,
        risk_type |-> risk_type, risks |-> <<>>,
        outcome |-> IF r.requests = 0 THEN "" ELSE outcome,
        requests |-> r.requests, raised |-> r.raised, result |-> r.result,
        failed_before |-> FailedSoFar]

\* what a call of explain_multiple_risks leaves in last_call
RisksCall(language, risks, outcome) ==
    LET r == explain_multiple_risks(AI_AVAILABLE, client, risks, language, outcome)
    IN [fn |-> "explain_multiple_risks", language |-> language,
        risk_type |-> NoCategory, risks |-> risks,
        outcome |-> IF r.requests = 0 THEN "" ELSE outcome,
        requests |-> r.requests, raised |-> r.raised, result |-> r.result,
        failed_before |-> FailedSoFar]

\* one call of explain_clause
ExplainClause ==
    /\ module_state = "loaded"
    /\ \E language \in Languages, risk_type \in OptionalCategories,
          outcome \in GenerativeOutcomes :
          last_call' = ClauseCall(language, risk_type, outcome)
    /\ UNCHANGED << secret, module_state, AI_AVAILABLE, client,
                    scoreVars, splitVars, langVars, severityVars, runVars >>

\* one call of explain_multiple_risks
ExplainMultipleRisks ==
    /\ module_state = "loaded"
    /\ \E language \in Languages, risks \in ExplainedLists,
          outcome \in GenerativeOutcomes :
          last_call' = RisksCall(language, risks, outcome)
    /\ UNCHANGED << secret, module_state, AI_AVAILABLE, client,
                    scoreVars, splitVars, langVars, severityVars, runVars >>

NextExplain == LoadModule \/ ExplainClause \/ ExplainMultipleRisks

SpecExplain == InitExplain /\ [][NextExplain]_vars

(***************************************************************************)
(* split_clauses on one document text                                      *)
(***************************************************************************)
\* every text of at most MaxSplitTokens phrases
FreeTexts == UNION {[1..n -> SplitVocabulary] : n \in 0..MaxSplitTokens}

\* pieces of body text and what can stand between two of them
Blocks == { << "body50" >>, << "body51" >>, << Space, "body51", Space >>,
            << "body50", Space, "A." >> }
Separators == { << Newline, "Section 2" >>, << Newline, "A.", Space >>,
                << Newline, Newline >>, << Newline >> }

RECURSIVE BlockTexts(_)
\* the texts of n blocks with a separator between neighbours
BlockTexts(n) ==
    IF n = 1 THEN Blocks
    ELSE { t \o sep \o b : t \in BlockTexts(n - 1), sep \in Separators, b \in Blocks }

SplitTexts == FreeTexts \cup UNION {BlockTexts(n) : n \in 1..MaxBlocks}

InitSplit ==
    /\ text \in SplitTexts
    /\ split_pc = "start"
    /\ cleaned_clauses = <<>>
    /\ clause = NoneClause
    /\ runs = <<>>
    /\ clauses = <<>>
    /\ pc = "idle"
    /\ idx = 0
    /\ total_risks = 0 /\ high_risks = 0 /\ medium_risks = 0 /\ low_risks = 0
    /\ risky_clause_count = 0
    /\ matches = <<>>
    /\ report = NoReport
    /\ LangIdle
    /\ SeverityIdle
    /\ ExplainerIdle
    /\ RunIdle

\* the split on combined_pattern and the loop that strips and filters
SplitOnDelimiters ==
    /\ split_pc = "start"
    /\ cleaned_clauses' = CleanSegments(re_split(text))
    /\ split_pc' = "filtered"
    /\ UNCHANGED << text, scoreVars, langVars, severityVars, explainVars, runVars >>

\* at least two clauses were found: they are returned
ReturnDelimiterClauses ==
    /\ split_pc = "filtered"
    /\ ~NeedsFallback(cleaned_clauses)
    /\ split_pc' = "done"
    /\ UNCHANGED << text, cleaned_clauses, scoreVars, langVars, severityVars, explainVars, runVars >>

\* "if len(cleaned_clauses) < 2": the paragraphs are returned instead
ReturnParagraphs ==
    /\ split_pc = "filtered"
    /\ NeedsFallback(cleaned_clauses)
    /\ cleaned_clauses' = CleanSegments(split_paragraphs(text))
    /\ split_pc' = "done"
    /\ UNCHANGED << text, scoreVars, langVars, severityVars, explainVars, runVars >>

NextSplit == SplitOnDelimiters \/ ReturnDelimiterClauses \/ ReturnParagraphs

SpecSplit == InitSplit /\ [][NextSplit]_vars

(***************************************************************************)
(* The card of one clause in the detailed listing of app.py: the module    *)
(* ai_explainer is imported when the application starts, detect_risks is   *)
(* called on the clause, and the button asks for an explanation of the     *)
(* risks found.  The script runs from top to bottom on the upload and      *)
(* again on every interaction, and each run calls detect_risks on the      *)
(* clause anew; runs holds the call of the latest run and last_call the    *)
(* explain call of that run, if the run made one (the explanation is shown *)
(* by the run the button caused, and by no later run).  The clause is one  *)
(* of a document whose listing loop is entered in every run.               *)
(***************************************************************************)
\* Hindi clauses of one long phrase and of MaxLongTokens long phrases, and
\* clauses with a signature of Indemnification in front of no long phrase
\* and of MaxLongTokens - 1 long phrases
LongClauses ==
    { ClauseOf(Repeat(LongHindi, k), "en") : k \in {1, MaxLongTokens} } \cup
    { ClauseOf(<< "kshatipurti", Space >> \o Repeat(LongHindi, k), "en") :
        k \in {0, MaxLongTokens - 1} }

CardClauses == {BenignClause, HighClause, MultiClause, HindiClause} \cup LongClauses

InitCard ==
    /\ clause \in CardClauses
    /\ runs = <<>>
    /\ secret \in Secrets
    /\ module_state = "unloaded"
    /\ AI_AVAILABLE = FALSE
    /\ client = "None"
    /\ last_call = NoCall
    /\ clauses = <<>>
    /\ pc = "idle"
    /\ idx = 0
    /\ total_risks = 0 /\ high_risks = 0 /\ medium_risks = 0 /\ low_risks = 0
    /\ risky_clause_count = 0
    /\ matches = <<>>
    /\ report = NoReport
    /\ SplitIdle
    /\ LangIdle
    /\ SeverityIdle
    /\ RunIdle

\* what a call of detect_risks on the clause can be, over the behaviours
\* of the translator
RunsOf(c) == { DetectRun(c, beh) : beh \in ObservableBehaviours(c) }

\* no explain call in this run of the script
NoCallInRun == [NoCall EXCEPT !.failed_before = FailedSoFar]

\* a run of the script that is not caused by the button of the card:
\* "risks = detect_risks(clause)", and no explanation
ListClause ==
    /\ module_state = "loaded"
    /\ \E run \in RunsOf(clause) : runs' = << run >>
    /\ last_call' = NoCallInRun
    /\ UNCHANGED << clause, clauses, pc, idx, total_risks, high_risks, medium_risks,
                    low_risks, risky_clause_count, matches, report >>
    /\ UNCHANGED << secret, module_state, AI_AVAILABLE, client >>
    /\ UNCHANGED << splitVars, langVars, severityVars, runVars >>

\* what the button asks for: explain_multiple_risks for more than one
\* risk, explain_clause with the only risk otherwise
ExplanationOf(risks, language, outcome) ==
    IF Len(risks) > 1 THEN RisksCall(language, risks, outcome)
    ELSE ClauseCall(language, risks[1], outcome)

\* the button of the card is pressed: the card was shown by the latest run
\* ("if risks"), the press runs the script again, detect_risks is called
\* anew, and the risks of this run are explained if the card is shown again
RequestExplanation ==
    /\ module_state = "loaded"
    /\ runs # <<>>
    /\ runs[1].risks # <<>>
    /\ \E run \in RunsOf(clause), language \in Languages,
          outcome \in GenerativeOutcomes :
          /\ runs' = << run >>
          /\ last_call' = IF run.risks = <<>> THEN NoCallInRun
                          ELSE ExplanationOf(run.risks, language, outcome)
    /\ UNCHANGED << clause, clauses, pc, idx, total_risks, high_risks, medium_risks,
                    low_risks, risky_clause_count, matches, report >>
    /\ UNCHANGED << secret, module_state, AI_AVAILABLE, client >>
    /\ UNCHANGED << splitVars, langVars, severityVars, runVars >>

NextCard == LoadModule \/ ListClause \/ RequestExplanation

SpecCard == InitCard /\ [][NextCard]_vars


(***************************************************************************)
(* The analysis run of app.py on an uploaded file: extract_text, the test  *)
(* for an extraction error, split_clauses with the whole text as the       *)
(* clause of last resort, and calculate_risk_score on the clause list.     *)
(***************************************************************************)
File(content, readable) == [content |-> content, readable |-> readable]

\* text_utils.extract_text: the stripped text, or the error message
extract_text(file) ==
    IF file.readable THEN Strip(file.content) ELSE << ErrorText >>

\* contract_text.startswith("Error")
StartsWithError(toks) == toks # <<>> /\ Head(toks) = ErrorText

\* a run that hands the split result to the scorer as it is
ClausesAsSplit(list, whole) == list

\* "if not clauses: clauses = [contract_text]"
ClausesOrWhole(list, whole) == IF list = <<>> THEN << whole >> ELSE list

\* the clause list with the verdict of the statistical routine attached to
\* each text (equal texts get equal verdicts)
WithVerdicts(list) ==
    { [i \in DOMAIN list |-> ClauseOf(list[i], verdicts[i])] :
        verdicts \in { f \in [DOMAIN list -> StatVerdicts] :
                         /\ \A i \in DOMAIN list : f[i] \in FeasibleVerdicts(list[i])
                         /\ \A i, j \in DOMAIN list : list[i] = list[j] => f[i] = f[j] } }

\* pieces of a contract, some with a risk signature, some too short to be
\* a clause of their own
RunBlocks == { << "body50" >>, << "body51" >>, << "body51", Space, "indemnify" >>,
               << "kshatipurti", Space, "body51" >>,
               << "indemnify", Space, "Hold Harmless" >> }

RECURSIVE RunTexts(_)
RunTexts(n) ==
    IF n = 1 THEN RunBlocks
    ELSE { t \o sep \o b : t \in RunTexts(n - 1), sep \in Separators, b \in RunBlocks }

Uploads ==
    { File(<<>>, TRUE), File(<<>>, FALSE) }
    \cup { File(<< Newline >> \o b \o << Newline >>, TRUE) : b \in RunBlocks }
    \cup { File(t, TRUE) : t \in UNION {RunTexts(n) : n \in 1..MaxRunBlocks} }

InitRun ==
    /\ uploaded_file \in Uploads
    /\ contract_text = <<>>
    /\ run_pc = "uploaded"
    /\ risky_count = -1
    /\ listed = <<>>
    /\ exported = <<>>
    /\ clause = NoneClause
    /\ runs = <<>>
    /\ clauses = <<>>
    /\ pc = "idle"
    /\ idx = 0
    /\ total_risks = 0 /\ high_risks = 0 /\ medium_risks = 0 /\ low_risks = 0
    /\ risky_clause_count = 0
    /\ matches = <<>>
    /\ report = NoReport
    /\ SplitIdle
    /\ LangIdle
    /\ SeverityIdle
    /\ ExplainerIdle

\* "contract_text = extract_text(uploaded_file)"
ExtractText ==
    /\ run_pc = "uploaded"
    /\ contract_text' = extract_text(uploaded_file)
    /\ run_pc' = "extracted"
    /\ UNCHANGED << uploaded_file, risky_count, listed, exported >>
    /\ UNCHANGED << scoreVars, splitVars, langVars, severityVars, explainVars >>

\* the error message is shown and nothing is analysed
RejectError ==
    /\ run_pc = "extracted"
    /\ StartsWithError(contract_text)
    /\ run_pc' = "rejected"
    /\ UNCHANGED << uploaded_file, contract_text, risky_count, listed, exported >>
    /\ UNCHANGED << scoreVars, splitVars, langVars, severityVars, explainVars >>

\* the text is split and calculate_risk_score is called on the clause list
AnalyseDocument ==
    /\ run_pc = "extracted"
    /\ ~StartsWithError(contract_text)
    /\ clauses' \in WithVerdicts(ClausesOrWhole(split_clauses(contract_text),
                                                contract_text))
    /\ pc' = "start"
    /\ run_pc' = "scoring"
    /\ UNCHANGED << clause, runs, idx, total_risks, high_risks, medium_risks,
                    low_risks, risky_clause_count, matches, report >>
    /\ UNCHANGED << uploaded_file, contract_text, risky_count, listed, exported >>
    /\ UNCHANGED << splitVars, langVars, severityVars, explainVars >>

NextRun ==
    \/ ExtractText
    \/ RejectError
    \/ AnalyseDocument
    \/ EnterLoop
    \/ ScoreClause
    \/ ReturnReport

SpecRun == InitRun /\ [][NextRun]_vars

(***************************************************************************)
(* The analysis run followed past the score: the count of risky clauses,   *)
(* the loop of the detailed listing and the loop of the export report.     *)
(* Each of them calls detect_risks on every clause once more.              *)
(***************************************************************************)
\* the lists detect_risks can return for a clause, over the behaviours of
\* the translator
RiskListsOf(c) == { detect_risks(c, beh).risks : beh \in ObservableBehaviours(c) }

\* "sum(1 for c in clauses if detect_risks(c))": the values the sum can take
RiskyCounts(list) ==
    { Cardinality({i \in DOMAIN list : found[i]}) :
        found \in { f \in [DOMAIN list -> BOOLEAN] :
                      \A i \in DOMAIN list :
                          \E r \in RiskListsOf(list[i]) : f[i] = (r # <<>>) } }

\* paragraphs in English, without and with a signature of Indemnification
EnglishBlocks == { << "body51" >>, << "body51", Space, "indemnify" >> }

\* paragraphs the translator is asked about: one in Hindi without any
\* signature, one in mixed script that starts with a signature
HindiBlocks == { << LongHindi >>, << "kshatipurti", Space, "body51" >> }

ParagraphBreak == << Newline, Newline >>

RECURSIVE JoinBlocks(_)
JoinBlocks(blocks) ==
    IF Len(blocks) = 1 THEN blocks[1]
    ELSE blocks[1] \o ParagraphBreak \o JoinBlocks(Tail(blocks))

EnglishDocuments == UNION {[1..n -> EnglishBlocks] : n \in 0..MaxShownBlocks}

\* documents of English paragraphs with at most one paragraph in Hindi
ShownDocuments ==
    (EnglishDocuments \ { <<>> }) \cup
    UNION { { SubSeq(e, 1, k) \o << h >> \o SubSeq(e, k + 1, Len(e)) :
                k \in 0..Len(e), h \in HindiBlocks } : e \in EnglishDocuments }

ShownUploads == { File(JoinBlocks(d), TRUE) : d \in ShownDocuments }

InitListing ==
    /\ uploaded_file \in ShownUploads
    /\ contract_text = <<>>
    /\ run_pc = "uploaded"
    /\ risky_count = -1
    /\ listed = <<>>
    /\ exported = <<>>
    /\ clause = NoneClause
    /\ runs = <<>>
    /\ clauses = <<>>
    /\ pc = "idle"
    /\ idx = 0
    /\ total_risks = 0 /\ high_risks = 0 /\ medium_risks = 0 /\ low_risks = 0
    /\ risky_clause_count = 0
    /\ matches = <<>>
    /\ report = NoReport
    /\ SplitIdle
    /\ LangIdle
    /\ SeverityIdle
    /\ ExplainerIdle

\* "risky_count = sum(1 for c in clauses if detect_risks(c))"; the listing
\* loop is entered only when the count is not 0
CountRiskyClauses ==
    /\ run_pc = "scoring"
    /\ pc = "done"
    /\ risky_count' \in RiskyCounts(clauses)
    /\ run_pc' = IF risky_count' = 0 THEN "export" ELSE "listing"
    /\ UNCHANGED << uploaded_file, contract_text, listed, exported >>
    /\ UNCHANGED << scoreVars, splitVars, langVars, severityVars, explainVars >>

\* one iteration of the listing loop: "risks = detect_risks(clause)", and
\* the card of the clause "if risks"
ShowClause ==
    /\ run_pc = "listing"
    /\ Len(listed) < Len(clauses)
    /\ \E risks \in RiskListsOf(clauses[Len(listed) + 1]) :
          listed' = Append(listed, risks)
    /\ run_pc' = IF Len(listed) + 1 = Len(clauses) THEN "export" ELSE "listing"
    /\ UNCHANGED << uploaded_file, contract_text, risky_count, exported >>
    /\ UNCHANGED << scoreVars, splitVars, langVars, severityVars, explainVars >>

\* one iteration of the loop of the export report: "risks =
\* detect_risks(clause)", and the finding of the clause "if risks"
WriteFinding ==
    /\ run_pc = "export"
    /\ Len(exported) < Len(clauses)
    /\ \E risks \in RiskListsOf(clauses[Len(exported) + 1]) :
          exported' = Append(exported, risks)
    /\ run_pc' = IF Len(exported) + 1 = Len(clauses) THEN "exported" ELSE "export"
    /\ UNCHANGED << uploaded_file, contract_text, risky_count, listed >>
    /\ UNCHANGED << scoreVars, splitVars, langVars, severityVars, explainVars >>

NextListing ==
    \/ ExtractText
    \/ AnalyseDocument
    \/ EnterLoop
    \/ ScoreClause
    \/ ReturnReport
    \/ CountRiskyClauses
    \/ ShowClause
    \/ WriteFinding

SpecListing == InitListing /\ [][NextListing]_vars


TypeOK ==
    /\ pc \in {"idle", "start", "loop", "done"}
    /\ idx \in 0..(Len(clauses) + 1)
    /\ Len(matches) <= Len(clauses)

(***************************************************************************)
(* Auxiliary definitions for the properties                                *)
(***************************************************************************)
InSeq(x, seq) == \E i \in DOMAIN seq : seq[i] = x

TableIndex(risk_type) == CHOOSE k \in DOMAIN RiskTypes : RiskTypes[k] = risk_type

\* categories with a signature matching the lower-cased text of the clause
OriginalMatches(c) ==
    { r \in {RiskTypes[k] : k \in DOMAIN RiskTypes} :
        \E i \in DOMAIN c.toks : TokLower(c.toks[i]) \in RISK_PATTERNS(r) }

\* number of entries of severity level over all match lists
RECURSIVE HitsOf(_, _)
HitsOf(lists, level) ==
    IF lists = <<>> THEN 0
    ELSE Cardinality({i \in DOMAIN Head(lists) : RISK_LEVELS[Head(lists)[i]] = level})
         + HitsOf(Tail(lists), level)

RECURSIVE TotalLen(_)
TotalLen(lists) ==
    IF lists = <<>> THEN 0 ELSE Len(Head(lists)) + TotalLen(Tail(lists))

\* the thresholds applied to a one-decimal score given in tenths
GradeLadder(tenths) ==
    IF tenths >= 900 THEN "A+"
    ELSE IF tenths >= 800 THEN "A"
    ELSE IF tenths >= 700 THEN "B"
    ELSE IF tenths >= 600 THEN "C"
    ELSE IF tenths >= 500 THEN "D"
    ELSE "F"

Abs(x) == IF x < 0 THEN -x ELSE x

Returned == pc = "done"

(***************************************************************************)
(* Properties of calculate_risk_score (specification Spec)                 *)
(***************************************************************************)

\* C1: the score of every report returned lies between 0 and 100
\* (0 and 1000 tenths), whatever the clauses and the translator did.
C1_ScoreInRange == Returned => (report.score >= 0 /\ report.score <= 1000)

\* a document whose unclamped score is negative has been scored
C1_Witness ==
    /\ Returned /\ clauses # <<>>
    /\ RawScore(Len(clauses), total_risks, high_risks, medium_risks, low_risks) < 0
    /\ report.score = 0

\* C2: the grade of every report returned is the one the thresholds assign
\* to the one-decimal score of that same report.
C2_GradeOfReportedScore == Returned => report.grade = GradeLadder(report.score)

\* C3: for a non-empty list of N clauses with H, M, L hits the reported score
\* is 100 - 25(H+M+L)/N - 8H - 4M - 2L, clamped to [0, 100] and rounded to the
\* nearest tenth; ten clauses with one High category each give 0 and F.
C3_ScoreFormula ==
    (Returned /\ clauses # <<>>) =>
        LET N == Len(clauses)
            H == HitsOf(matches, "High")
            M == HitsOf(matches, "Medium")
            L == HitsOf(matches, "Low")
            raw == 100 * N - 25 * (H + M + L) - N * (8 * H + 4 * M + 2 * L)
            clamped == IF raw < 0 THEN 0 ELSE IF raw > 100 * N THEN 100 * N ELSE raw
        IN /\ 2 * Abs(report.score * N - 10 * clamped) <= N
           /\ (N = 10 /\ H = 10 /\ M = 0 /\ L = 0
                 /\ \A k \in DOMAIN matches : Len(matches[k]) = 1)
              => (report.score = 0 /\ report.grade = "F")

\* the ten-clause example of the specification has been scored
C3_Witness ==
    /\ Returned /\ Len(clauses) = 10
    /\ \A k \in DOMAIN matches : matches[k] = << "Indemnification" >>
    /\ Len(matches) = 10
    /\ report.score = 0 /\ report.grade = "F"

\* C4: on the empty list the report is score 100, grade A+, every count 0,
\* and the matcher has not been called.
C4_EmptyListPerfect ==
    (Returned /\ clauses = <<>>) =>
        /\ report.score = 1000 /\ report.grade = "A+"
        /\ report.total_clauses = 0 /\ report.risky_clauses = 0
        /\ report.high_risk_count = 0 /\ report.medium_risk_count = 0
        /\ report.low_risk_count = 0
        /\ matches = <<>>

C4_Witness == Returned /\ clauses = <<>> /\ report # NoReport

\* C5: risky_clauses counts the clauses with a non-empty match list, the
\* three severity counts add up to the total length of the match lists, the
\* density uses that same total, and risky_clauses is bounded by both the
\* clause count and the hit count.
C5_CountsAgree ==
    (Returned /\ clauses # <<>>) =>
        LET hits == report.high_risk_count + report.medium_risk_count
                    + report.low_risk_count
        IN /\ report.risky_clauses =
                  Cardinality({k \in DOMAIN matches : matches[k] # <<>>})
           /\ Len(matches) = Len(clauses)
           /\ hits = TotalLen(matches)
           /\ total_risks = hits
           /\ report.high_risk_count = HitsOf(matches, "High")
           /\ report.medium_risk_count = HitsOf(matches, "Medium")
           /\ report.low_risk_count = HitsOf(matches, "Low")
           /\ report.risky_clauses <= report.total_clauses
           /\ report.risky_clauses <= hits

\* a document with a clause matching several categories and a clause
\* matching none has been scored
C5_Witness ==
    /\ Returned
    /\ \E k \in DOMAIN matches : Len(matches[k]) >= 2
    /\ \E k \in DOMAIN matches : matches[k] = <<>>
    /\ report.risky_clauses < TotalLen(matches)

\* C6: with the clause count fixed, one more hit of any severity never
\* raises the reported score.
C6_Monotone ==
    (Returned /\ clauses # <<>>) =>
        LET N == Len(clauses)
            more(h, m, l) ==
                FinalReport(N, total_risks + 1, high_risks + h, medium_risks + m,
                            low_risks + l, risky_clause_count).score
        IN /\ more(1, 0, 0) <= report.score
           /\ more(0, 1, 0) <= report.score
           /\ more(0, 0, 1) <= report.score

\* a report with a positive score that one more High hit clamps to 0, while
\* one more Low hit lowers it by less than a point
C6_Witness ==
    /\ Returned /\ clauses # <<>> /\ report.score > 0
    /\ RawScore(Len(clauses), total_risks + 1, high_risks + 1, medium_risks,
                low_risks) < 0
    /\ FinalReport(Len(clauses), total_risks + 1, high_risks + 1, medium_risks,
                   low_risks, risky_clause_count).score = 0

(***************************************************************************)
(* Properties of detect_risks (specification SpecDetect)                   *)
(***************************************************************************)

\* C7: the list returned names each category at most once, in the order of
\* the category table.
C7_TableOrder ==
    \A n \in DOMAIN runs :
        \A i, j \in DOMAIN runs[n].risks :
            i < j => TableIndex(runs[n].risks[i]) < TableIndex(runs[n].risks[j])

\* a clause naming a later category before an earlier one, the earlier one
\* through two signatures, has been scanned
C7_Witness ==
    /\ clause.kind = "str"
    /\ clause.toks = << "AS IS", "indemnify", "Hold Harmless" >>
    /\ runs # <<>>
    /\ runs[1].risks = << "Indemnification", "Limited Warranty" >>

\* C8 as stated: any two calls on the same clause return the same list.
C8_Idempotent ==
    \A m, n \in DOMAIN runs : runs[m].risks = runs[n].risks

\* C8 amended: two calls on a clause classified English (or too short to be
\* scanned) return the same list; two calls on a clause classified Hindi or
\* mixed agree on every category that a signature matches in the original
\* text and differ at most in categories only a translation matched.
C8_IdempotentUpToTranslation ==
    \A m, n \in DOMAIN runs :
        /\ (TooShort(clause) \/ detect_language(clause) = "en")
              => runs[m].risks = runs[n].risks
        /\ \A r \in OriginalMatches(clause) :
              InSeq(r, runs[m].risks) <=> InSeq(r, runs[n].risks)
        /\ \A k \in DOMAIN runs[m].risks :
              ~InSeq(runs[m].risks[k], runs[n].risks)
                 => /\ detect_language(clause) \in {"hi", "mixed"}
                    /\ runs[m].risks[k] \notin OriginalMatches(clause)

\* two calls on a Hindi clause returned different lists that share the
\* category matched by the original text
C8_Witness ==
    /\ Len(runs) = 2
    /\ detect_language(clause) = "hi"
    /\ runs[1].risks # runs[2].risks
    /\ InSeq("Indemnification", runs[1].risks)
    /\ InSeq("Indemnification", runs[2].risks)

\* C9: a missing or empty clause and a clause of trimmed length below 20 give
\* the empty list without a call to the language detector or the translator;
\* a clause of trimmed length exactly 20 is scanned.
C9_ShortClauseSkipped ==
    \A n \in DOMAIN runs :
        /\ (clause.kind = "none" \/ StrLen(Strip(clause.toks)) < 20)
              => /\ runs[n].risks = <<>>
                 /\ runs[n].lang_calls = 0
                 /\ runs[n].requests = 0
        /\ (clause.kind = "str" /\ StrLen(Strip(clause.toks)) = 20)
              => /\ runs[n].lang_calls = 1
                 /\ \A r \in OriginalMatches(clause) : InSeq(r, runs[n].risks)

\* a clause of 20 characters, 19 after trimming, that contains a signature
\* has been handed to detect_risks
C9_Witness ==
    /\ clause.kind = "str"
    /\ clause.toks = << Space, "contract", "non-compete" >>
    /\ StrLen(clause.toks) = 20
    /\ runs # <<>>
    /\ runs[1].risks = <<>>

\* C10: for a clause classified Hindi or mixed, whether the translation
\* request raises, returns None or returns text, detect_risks does not raise
\* and returns every category matched by the lower-cased original text.
C10_TranslationOnlyAdds ==
    \A n \in DOMAIN runs :
        (~TooShort(clause) /\ detect_language(clause) \in {"hi", "mixed"})
           => /\ ~runs[n].raised
              /\ runs[n].requests = 1
              /\ \A r \in OriginalMatches(clause) : InSeq(r, runs[n].risks)

\* a mixed clause matching Indemnification was scanned once with a
\* translation that adds Non-Compete and does not contain Indemnification,
\* and once with a translator that failed
C10_Witness ==
    /\ Len(runs) = 2
    /\ detect_language(clause) = "mixed"
    /\ OriginalMatches(clause) = { "Indemnification" }
    /\ runs[1].outcomes = << "str" >>
    /\ runs[1].risks = << "Indemnification", "Non-Compete" >>
    /\ runs[2].outcomes \in { << "raise" >>, << "none" >> }
    /\ runs[2].risks = << "Indemnification" >>

\* the segments the two ways of splitting leave after stripping and filtering
DelimiterSurvivors == CleanSegments(re_split(text))
ParagraphSurvivors == CleanSegments(split_paragraphs(text))

RECURSIVE OccursInOrder(_, _, _)
\* the texts of list occur in toks one after the other, without overlap,
\* at or after position from
OccursInOrder(list, toks, from) ==
    \/ list = <<>>
    \/ \E p \in from..Len(toks) :
          /\ p + Len(Head(list)) - 1 <= Len(toks)
          /\ SubSeq(toks, p, p + Len(Head(list)) - 1) = Head(list)
          /\ OccursInOrder(Tail(list), toks, p + Len(Head(list)))

SplitReturned == split_pc = "done"

\* C11: every clause split_clauses returns is longer than 50 characters (a
\* segment of exactly 50 characters is not returned) and is already trimmed,
\* and the clauses occur in the source text in the order returned; on the
\* delimiter path and on the paragraph path
C11_LongTrimmedInOrder ==
    SplitReturned =>
        /\ \A i \in DOMAIN cleaned_clauses :
              /\ StrLen(cleaned_clauses[i]) > 50
              /\ Strip(cleaned_clauses[i]) = cleaned_clauses[i]
        /\ OccursInOrder(cleaned_clauses, text, 1)

\* a delimiter split returned: a segment of exactly 50 characters was
\* dropped, a blank was trimmed off a returned clause, and two different
\* clauses were returned
C11_Witness ==
    /\ SplitReturned
    /\ Len(DelimiterSurvivors) >= 2
    /\ \E i \in DOMAIN re_split(text) : StrLen(Strip(re_split(text)[i])) = 50
    /\ \E i \in DOMAIN re_split(text) :
          /\ Strip(re_split(text)[i]) # re_split(text)[i]
          /\ InSeq(Strip(re_split(text)[i]), cleaned_clauses)
    /\ cleaned_clauses[1] # cleaned_clauses[2]

\* C12: with fewer than 2 survivors of the delimiter split the result is
\* exactly the filtered paragraph split (the delimiter result is dropped,
\* also when it had one clause and the paragraph split has none); with 2 or
\* more survivors the result is the delimiter result
C12_FallbackPolicy ==
    SplitReturned =>
        cleaned_clauses = IF Len(DelimiterSurvivors) < 2
                          THEN ParagraphSurvivors
                          ELSE DelimiterSurvivors

\* the delimiter split had one clause, the paragraph split has none, and
\* the empty list was returned
C12_Witness ==
    /\ SplitReturned
    /\ Len(DelimiterSurvivors) = 1
    /\ ParagraphSurvivors = <<>>
    /\ cleaned_clauses = <<>>

LanguageReturned == detected # ""

\* C13: detect_language answers English for a text of trimmed length below
\* 10 and for a text without word characters; otherwise Hindi when more than
\* half of the word-character count is Devanagari, mixed when the ratio is
\* above 0.1 and at most 0.5, and otherwise the verdict of the statistical
\* routine on the first 500 characters, Hindi staying Hindi and every other
\* verdict becoming English; the answer is one of the three values
C13_LanguageRules ==
    LanguageReturned =>
        LET hindi == HindiChars(lang_text.toks)
            total == WordChars(lang_text.toks)
        IN /\ detected \in {"en", "hi", "mixed"}
           /\ detected =
                IF \/ lang_text.kind = "none"
                   \/ StrLen(Strip(lang_text.toks)) < 10
                   \/ total = 0
                THEN "en"
                ELSE IF 2 * hindi > total THEN "hi"
                ELSE IF 10 * hindi > total THEN "mixed"
                ELSE IF lang_text.stat = "hi" THEN "hi"
                ELSE "en"

\* a text whose ratio is exactly 0.5 was classified mixed
C13_Witness ==
    /\ LanguageReturned
    /\ StrLen(Strip(lang_text.toks)) >= 10
    /\ HindiChars(lang_text.toks) > 0
    /\ 2 * HindiChars(lang_text.toks) = WordChars(lang_text.toks)
    /\ detected = "mixed"

\* C14: a failure of the statistical routine is swallowed by detect_language:
\* the clause is classified English and no exception leaves detect_risks
C14_DetectionFailureSwallowed ==
    \A n \in DOMAIN runs :
        /\ ~runs[n].raised
        /\ (/\ runs[n].lang_calls = 1
            /\ StatConsulted(clause.toks)
            /\ clause.stat = "raise") => runs[n].lang = "en"

\* detect_risks returned for a clause on which the statistical routine fails
C14_Witness ==
    /\ Len(runs) >= 1
    /\ runs[1].lang_calls = 1
    /\ StatConsulted(clause.toks)
    /\ clause.stat = "raise"
    /\ runs[1].lang = "en"
    /\ ~runs[1].raised

\* the fixed severity of the spec's category table
TableSeverity(category) ==
    IF category \in {"Liability Cap", "Indemnification", "IP Transfer", "Data Rights"}
    THEN "High"
    ELSE IF category \in {"Non-Compete", "Automatic Renewal", "Termination Fee",
                          "Unilateral Changes", "Payment Terms",
                          "Confidentiality Burden", "Assignment Rights"}
    THEN "Medium"
    ELSE "Low"

Listed(category) == \E k \in DOMAIN RiskTypes : RiskTypes[k] = category

\* C15: get_risk_severity answers the table's severity for every category
\* of the closed set (Liability Cap is High) and Medium for a category the
\* table does not list, and always answers; the scorer counts a category
\* the table does not list in the medium bucket
C15_SeverityLookup ==
    /\ levels # NoLevels =>
          /\ Len(levels) = Len(risk_list)
          /\ \A i \in DOMAIN risk_list :
                /\ levels[i] \in {"High", "Medium", "Low"}
                /\ Listed(risk_list[i]) => levels[i] = TableSeverity(risk_list[i])
                /\ risk_list[i] = "Liability Cap" => levels[i] = "High"
                /\ ~Listed(risk_list[i]) => levels[i] = "Medium"
    /\ tally # NoTally =>
          /\ tally.high = Cardinality({i \in DOMAIN risk_list :
                              Listed(risk_list[i]) /\ TableSeverity(risk_list[i]) = "High"})
          /\ tally.low = Cardinality({i \in DOMAIN risk_list :
                              Listed(risk_list[i]) /\ TableSeverity(risk_list[i]) = "Low"})
          /\ tally.medium = Cardinality({i \in DOMAIN risk_list :
                              \/ ~Listed(risk_list[i])
                              \/ TableSeverity(risk_list[i]) = "Medium"})

\* a list holding Liability Cap and an unlisted category was looked up and
\* tallied
C15_Witness ==
    /\ levels # NoLevels
    /\ tally # NoTally
    /\ InSeq("Liability Cap", risk_list)
    /\ InSeq(UnlistedCategory, risk_list)
    /\ tally.medium = 1

\* the static template the spec prescribes: the entry of the category in the
\* table of the language asked for (Hindi for "hi", English otherwise), the
\* generic consult-a-professional text when the table has no such entry
ExpectedTemplate(language, category) ==
    IF language = "hi"
    THEN Template("hi", IF category \in {"Liability Cap", "Indemnification"}
                        THEN category ELSE "generic")
    ELSE Template("en", IF Listed(category) THEN category ELSE "generic")

ExplainReturned == last_call.fn # ""

\* the call issued a generative request and the request failed
RequestFailed == ExplainReturned /\ last_call.requests >= 1 /\ last_call.outcome = "raise"

\* the call took the template path: no request, or a failed one
TemplatePath == ExplainReturned /\ (last_call.requests = 0 \/ last_call.outcome = "raise")

\* C16: when the generative request of explain_clause or
\* explain_multiple_risks fails, no exception reaches the caller, the call
\* returns the static template of each supplied category (Hindi for language
\* hi, English otherwise), and what the caller receives is an explanation:
\* never the empty string, never a bare notice
C16_FailureFallsBack ==
    RequestFailed =>
        /\ ~last_call.raised
        /\ last_call.result # <<>>
        /\ \A i \in DOMAIN last_call.result : last_call.result[i].kind = "template"
        /\ (last_call.fn = "explain_clause" /\ CategoryGiven(last_call.risk_type)) =>
              last_call.result = << ExpectedTemplate(last_call.language, last_call.risk_type) >>
        /\ last_call.fn = "explain_multiple_risks" =>
              \A i \in DOMAIN last_call.result :
                  last_call.result[i] = ExpectedTemplate(last_call.language, last_call.risks[i])

\* C17: explain_clause called without a category returns the generic
\* consult-a-professional explanation in the language asked for, when the
\* service is unavailable and when the request fails
C17_GenericWithoutCategory ==
    (/\ TemplatePath
     /\ last_call.fn = "explain_clause"
     /\ last_call.risk_type = NoCategory) =>
        last_call.result = << Template(IF last_call.language = "hi" THEN "hi" ELSE "en",
                                       "generic") >>

\* no credentials are configured: no secret, or an empty one
NoCredentials == secret \in {SecretMissing, ""}

\* C18: without credentials the module still initialises (its import does
\* not end in an exception, the service is marked unavailable) and every
\* explain call is answered without a generative request
C18_StartsWithoutCredentials ==
    NoCredentials =>
        /\ module_state # "failed"
        /\ module_state = "loaded" => (~AI_AVAILABLE /\ client = "None")
        /\ ExplainReturned => (last_call.requests = 0 /\ ~last_call.raised)

\* the number of pieces of at most 4500 characters the clause is cut into
ChunkCount ==
    IF StrLen(clause.toks) <= 4500 THEN 1 ELSE (StrLen(clause.toks) + 4499) \div 4500

\* C19: collaborator calls are single-attempt: an explain call issues at
\* most one generative request, a detect_risks call issues at most one
\* translation request per chunk of 4500 characters of the clause, and in
\* neither is a failed request followed by another request of the same call
C19_SingleAttempt ==
    /\ last_call.requests <= 1
    /\ \A n \in DOMAIN runs :
          /\ runs[n].requests <= ChunkCount
          /\ \A k \in 1..runs[n].requests :
                runs[n].outcomes[k] = "raise" => k = runs[n].requests

\* a clause of two chunks whose first translation request failed, and an
\* explanation of its risk whose generative request failed
C19_Witness ==
    /\ ChunkCount = 2
    /\ Len(runs) = 1
    /\ runs[1].requests = 1
    /\ runs[1].outcomes = << "raise" >>
    /\ last_call.fn = "explain_clause"
    /\ last_call.requests = 1
    /\ last_call.outcome = "raise"

\* calculate_risk_score has been called in the analysis run
ScorerCalled == run_pc = "scoring"

\* C20: when split_clauses finds no clause in the document, the analysis
\* run hands the whole document text to the scorer as the only clause; the
\* scorer is never called with an empty list, and the report of the run
\* counts at least one clause
C20_WholeDocumentFallback ==
    ScorerCalled =>
        /\ clauses # <<>>
        /\ split_clauses(contract_text) = <<>> =>
              (Len(clauses) = 1 /\ clauses[1].toks = contract_text)
        /\ Returned => report.total_clauses >= 1

\* a document in which split_clauses finds no clause was scored as one
\* clause, and the risk in it was found
C20_Witness ==
    /\ ScorerCalled
    /\ Returned
    /\ split_clauses(contract_text) = <<>>
    /\ report.total_clauses = 1
    /\ report.risky_clauses = 1

\* the listing is over: its loop has run, or was skipped for a count of 0
ListingDone == run_pc \in {"export", "exported"}

\* the export report is written
ExportDone == run_pc = "exported"

\* number of clauses for which a loop found a non-empty list
ShownRisky(lists) == Cardinality({i \in DOMAIN lists : lists[i] # <<>>})

\* C21: within one analysis run the clauses shown as risky in the detailed
\* listing, and those written to the export report, are as many as
\* risky_clauses of the ScoreReport of the run, and the categories shown
\* for them are as many as high + medium + low of that report, whatever the
\* translator does
C21_ListingAgreesWithReport ==
    /\ ListingDone =>
          /\ ShownRisky(listed) = report.risky_clauses
          /\ TotalLen(listed) = report.high_risk_count + report.medium_risk_count
                                  + report.low_risk_count
    /\ ExportDone =>
          /\ ShownRisky(exported) = report.risky_clauses
          /\ TotalLen(exported) = report.high_risk_count + report.medium_risk_count
                                    + report.low_risk_count

\* the module has been imported: its body, and with it the connection test
\* if there was one, is over
Started == module_state = "loaded"

\* the key was valid and the try block of the start-up failed: the client
\* could not be made, or the connection test was made and it failed
StartupTestFailed ==
    /\ Started
    /\ CleanKey(secret) # "" /\ StartsWithGsk(CleanKey(secret))
    /\ ~AI_AVAILABLE

\* the connection test was made at start-up and it succeeded
StartupTestPassed == Started /\ client = "Groq" /\ AI_AVAILABLE

\* the step is a call of explain_clause or explain_multiple_risks
ExplainStep == Started /\ last_call'.fn # "" /\ module_state' = module_state

\* C22: once the module has started, the availability flag and the client
\* never change; after a failed start-up test every later call of
\* explain_clause or explain_multiple_risks issues no generative request,
\* however a request would end by then, and returns templates; after a
\* passed test every later call issues exactly one request, also when
\* requests of earlier calls have failed
C22_FlagDecidedOnce ==
    [][ /\ Started =>
              /\ Started'
              /\ AI_AVAILABLE' = AI_AVAILABLE
              /\ client' = client
        /\ (ExplainStep /\ StartupTestFailed) =>
              /\ last_call'.requests = 0
              /\ ~last_call'.raised
              /\ last_call'.result # <<>>
              /\ \A i \in DOMAIN last_call'.result :
                    last_call'.result[i].kind = "template"
        /\ (ExplainStep /\ StartupTestPassed) =>
              /\ last_call'.requests = 1
              /\ last_call'.outcome \in GenerativeOutcomes ]_vars

\* translate_text has returned
TranslateReturned == translation.called

\* the text handed to translate_text, as a value
OriginalText == [kind |-> lang_text.kind, toks |-> lang_text.toks]

\* the answers put one behind the other, first answer first, with a blank
\* between neighbours
RECURSIVE InOrder(_)
InOrder(answers) ==
    IF Len(answers) = 1 THEN answers[1].toks
    ELSE InOrder(SubSeq(answers, 1, Len(answers) - 1))
         \o << Space >> \o answers[Len(answers)].toks

\* the slices follow one another from the first character to the last and
\* none is longer than max_chunk_size
CoversOnceInOrder(chunks, length) ==
    /\ chunks # <<>>
    /\ chunks[1].from = 0
    /\ chunks[Len(chunks)].to = length
    /\ \A k \in DOMAIN chunks :
          /\ chunks[k].from < chunks[k].to
          /\ chunks[k].to - chunks[k].from <= max_chunk_size
          /\ k < Len(chunks) => chunks[k + 1].from = chunks[k].to

\* C23: translate_text never raises and is all-or-nothing: a text of more
\* than 4500 characters is cut into consecutive slices of at most 4500
\* characters that cover it exactly once in order, one request is made per
\* slice in that order, and the answers are joined in that order; when a
\* request fails the original text is returned, never a part of the
\* translation; a text whose trimmed length is below 5 is returned
\* unchanged without a request
C23_AllOrNothing ==
    TranslateReturned =>
        LET length == StrLen(lang_text.toks)
            answers == translation.answers
            failed == \E k \in DOMAIN answers : answers[k].kind = "raise"
            answered == \A k \in DOMAIN answers : answers[k].kind = "str"
        IN /\ ~translation.raised
           /\ Len(answers) = translation.requests
           /\ (lang_text.kind = "str" /\ StrLen(Strip(lang_text.toks)) < 5) =>
                 /\ translation.value = OriginalText
                 /\ translation.requests = 0
           /\ (translation.requests > 0 /\ length > max_chunk_size) =>
                 /\ CoversOnceInOrder(translation.chunks, length)
                 /\ translation.requests <= Len(translation.chunks)
                 /\ ~failed => translation.requests = Len(translation.chunks)
           /\ (translation.requests > 0 /\ length <= max_chunk_size) =>
                 /\ translation.chunks = <<>>
                 /\ translation.requests = 1
           /\ failed => translation.value = OriginalText
           /\ (translation.requests > 0 /\ answered) =>
                 translation.value = Str(InOrder(answers))
           /\ \/ translation.value = OriginalText
              \/ /\ translation.requests > 0
                 /\ answered
                 /\ translation.value = Str(InOrder(answers))
              \/ /\ translation.requests = 1
                 /\ translation.chunks = <<>>
                 /\ translation.value = [kind |-> answers[1].kind, toks |-> answers[1].toks]

\* a text of several slices whose first slice was translated and whose
\* second request failed came back as it was
C23_Witness ==
    /\ TranslateReturned
    /\ Len(translation.chunks) >= 2
    /\ translation.requests = 2
    /\ translation.answers[1].kind = "str"
    /\ translation.answers[1].toks # <<>>
    /\ translation.answers[2].kind = "raise"
    /\ translation.value = OriginalText

\* explain_multiple_risks has returned from its template path
RisksTemplatePath == TemplatePath /\ last_call.fn = "explain_multiple_risks"

\* C24: on the template path (service unavailable, or request failed)
\* explain_multiple_risks returns one template per risk for the first two
\* risks of the list only, in list order, each in the language asked for,
\* joined by the divider; later risks are not explained, and an empty list
\* gives the empty string
C24_FirstTwoTemplates ==
    RisksTemplatePath =>
        /\ ~last_call.raised
        /\ Len(last_call.risks) = 0 => last_call.result = <<>>
        /\ Len(last_call.risks) = 1 =>
              last_call.result = << ExpectedTemplate(last_call.language, last_call.risks[1]) >>
        /\ Len(last_call.risks) >= 2 =>
              last_call.result = << ExpectedTemplate(last_call.language, last_call.risks[1]),
                                    ExpectedTemplate(last_call.language, last_call.risks[2]) >>

\* a request for three risks failed, and templates of the first two came
\* back although the third risk has a template of its own
C24_Witness ==
    /\ RisksTemplatePath
    /\ RequestFailed
    /\ last_call.language = "en"
    /\ last_call.risks = << "Non-Compete", UnlistedCategory, "Liability Cap" >>
    /\ last_call.result = << Template("en", "Non-Compete"), Template("en", "generic") >>

====
